---- MODULE Spec2Model ----
(***************************************************************************)
(* A model of common/lib/xmodule/xmodule/x_module.py: the entry-point      *)
(* plugin loader (Plugin.load_class and its class-level cache) and the     *)
(* descriptor tree (XModuleDescriptor: metadata inheritance, lazily loaded *)
(* children, equality, JSON/XML class selection).                          *)
(*                                                                         *)
(* Strings that the code transforms (plugin identifiers, which are         *)
(* lower-cased) are sequences of one-character strings.  Python's None is  *)
(* the string "None" wherever the other values are strings, and a flag     *)
(* where they are not.  A dict that the code keeps by reference and writes *)
(* to (a descriptor's metadata) is an object of its own: the descriptor    *)
(* holds its index among the dict objects.                                 *)
(***************************************************************************)
EXTENDS Integers, Sequences, FiniteSets, TLC

VARIABLES
    registry,       \* the host's entry points for group "xmodule.v1", in iteration order
    plugin_cache,   \* XModuleDescriptor._plugin_cache
    ret,            \* outcome of the last class-level call (return value or exception)
    resolved,       \* history: identifier -> class that load_class resolved it to
    fallbacks,      \* history: identifiers load_class answered with the caller's default
    descriptors,    \* the XModuleDescriptor instance of each location
    dicts,          \* the metadata dict objects, in the order they were made
    authored,       \* history: the content of each descriptor's metadata dict at construction
    top_down,       \* history: so far only get_children ran, parent before child
    call            \* the last descriptor operation and what it did

pluginVars == <<registry, plugin_cache, ret, resolved, fallbacks>>
treeVars == <<descriptors, dicts, authored, top_down, call>>
vars == <<registry, plugin_cache, ret, resolved, fallbacks, descriptors, dicts,
         authored, top_down, call>>

----------------------------------------------------------------------------
(* Bounds and input sets *)

MaxRegistry == 2

None == "None"

\* The identifiers callers pass (XML tags, location categories) and the names
\* under which plugins are registered.
Identifiers == { <<"a">>, <<"A">>, <<"a", "b">>, <<"A", "b">> }

\* The descriptor classes of the model.  XModuleDescriptor is the base class,
\* whose from_xml / export_to_xml are abstract; the other two are concrete
\* plugins that override them.
BaseClass == "XModuleDescriptor"
ConcreteClasses == {"VideoDescriptor", "HtmlDescriptor"}
Classes == {BaseClass} \cup ConcreteClasses

EntryPoints == [name : Identifiers, cls : ConcreteClasses]

SeqsUpTo(S, n) == UNION { [1..k -> S] : k \in 0..n }

Registries == SeqsUpTo(EntryPoints, MaxRegistry)

----------------------------------------------------------------------------
(* Plugin.load_class *)

\* str.lower() on one character of the model's alphabet
LowerChar(c) ==
    CASE c = "A" -> "a"
      [] c = "B" -> "b"
      [] OTHER   -> c

\* str.lower()
Lower(s) == [i \in 1..Len(s) |-> LowerChar(s[i])]

\* pkg_resources.iter_entry_points(cls.entry_point, name=identifier), as a list
IterEntryPoints(reg, name) == SelectSeq(reg, LAMBDA e : e.name = name)

\* EntryPoint.load()
Load(e) == e.cls

\* The cache test of load_class: the identifier as passed, before lower-casing
CacheHit(d, identifier) == identifier \in DOMAIN d

\* A loader that takes the last matching entry instead of the first
ChosenLast(classes) == classes[Len(classes)]

\* The entry whose class load_class stores and returns
Chosen(classes) == classes[1]

\* The key under which load_class stores the class
CacheKey(identifier) == Lower(identifier)

\* cls._plugin_cache[key] = class_
Store(d, key, class_) ==
    [k \in (DOMAIN d) \cup {key} |-> IF k = key THEN class_ ELSE d[k]]

\* The dict load_class works on: a None cache becomes {} first
CacheDict(pc) == IF pc.is_none THEN <<>> ELSE pc.dict

Returned(pc, class_, consulted, warned) ==
    [cache |-> pc, kind |-> "return", exc |-> None, cls |-> class_,
     consulted |-> consulted, warned |-> warned]

Raised(pc, exc, consulted, warned) ==
    [cache |-> pc, kind |-> "raise", exc |-> exc, cls |-> None,
     consulted |-> consulted, warned |-> warned]

\* A loader that ignores the caller's default
MissingIgnoresDefault(pc, default, warned) ==
    Raised(pc, "ModuleMissingError", TRUE, warned)

\* load_class when no entry point matches: the default, or ModuleMissingError
Missing(pc, default, warned) ==
    IF default # None
    THEN Returned(pc, default, TRUE, warned)
    ELSE Raised(pc, "ModuleMissingError", TRUE, warned)

\* A loader that caches the caller's default under the identifier's key
LoadClassCachingDefault(pc, reg, identifier, default) ==
    LET d == CacheDict(pc)
        live == [is_none |-> FALSE, dict |-> d]
    IN  IF ~CacheHit(d, identifier)
        THEN LET id == CacheKey(identifier)
                 classes == IterEntryPoints(reg, id)
                 warned == Len(classes) > 1
                 class_ == IF Len(classes) = 0 THEN default ELSE Load(Chosen(classes))
             IN  IF Len(classes) = 0 /\ default = None
                 THEN Missing(live, default, warned)
                 ELSE LET d2 == Store(d, id, class_)
                      IN  Returned([is_none |-> FALSE, dict |-> d2], d2[id],
                                   TRUE, warned)
        ELSE Returned(live, d[identifier], FALSE, FALSE)

\* Plugin.load_class(identifier, default): the cache it leaves and its outcome.
\* consulted: it asked the registry; warned: it logged the ambiguity warning.
LoadClass(pc, reg, identifier, default) ==
    LET d == CacheDict(pc)
        live == [is_none |-> FALSE, dict |-> d]
    IN  IF ~CacheHit(d, identifier)
        THEN LET id == CacheKey(identifier)
                 classes == IterEntryPoints(reg, id)
                 warned == Len(classes) > 1
             IN  IF Len(classes) = 0
                 THEN Missing(live, default, warned)
                 ELSE LET d2 == Store(d, id, Load(Chosen(classes)))
                      IN  Returned([is_none |-> FALSE, dict |-> d2], d2[id],
                                   TRUE, warned)
        ELSE Returned(live, d[identifier], FALSE, FALSE)

\* The identifier has a registered entry point, the way load_class looks it up
Registered(reg, identifier) == Len(IterEntryPoints(reg, Lower(identifier))) > 0

----------------------------------------------------------------------------
(* Class-level operations of XModuleDescriptor *)

\* Does the class override the abstract XML operations of the base class?
OverridesXml(class_) == class_ # BaseClass

\* XModuleDescriptor.from_xml on a class: only an overriding plugin builds
FromXmlRaises(class_) == ~OverridesXml(class_)

NoCall ==
    [op |-> "none", identifier |-> <<>>, default |-> None, kind |-> "none",
     exc |-> None, cls |-> None, built_by |-> None,
     consulted |-> FALSE, warned |-> FALSE, known |-> FALSE]

Outcome(op, identifier, default, o, kind, exc, built_by) ==
    [op |-> op, identifier |-> identifier, default |-> default, kind |-> kind,
     exc |-> exc, cls |-> o.cls, built_by |-> built_by,
     consulted |-> o.consulted, warned |-> o.warned,
     known |-> identifier \in DOMAIN resolved]

\* The history of resolutions: an identifier is resolved when load_class
\* returned a class for it that is not the caller's fallback.
Resolve(o, identifier) ==
    IF o.kind = "return" /\ (~o.consulted \/ Registered(registry, identifier))
       /\ identifier \notin DOMAIN resolved
    THEN [k \in (DOMAIN resolved) \cup {identifier} |->
             IF k = identifier THEN o.cls ELSE resolved[k]]
    ELSE resolved

\* A selector that drops the caller's default_class
DefaultArgDropped(default_class) == None

\* The default load_from_json and load_from_xml hand to load_class
DefaultArg(default_class) == default_class

\* XModuleDescriptor.load_class(identifier, default)
CallLoadClass(identifier, default) ==
    LET o == LoadClass(plugin_cache, registry, identifier, default)
    IN  /\ plugin_cache' = o.cache
        /\ ret' = Outcome("load_class", identifier, default, o, o.kind, o.exc, None)
        /\ resolved' = Resolve(o, identifier)
        /\ UNCHANGED <<registry, fallbacks, treeVars>>

\* The outcome is the caller's default: the registry was read and had no match
IsFallback(o, identifier) ==
    o.kind = "return" /\ o.consulted /\ ~Registered(registry, identifier)

\* XModuleDescriptor.load_class(identifier, default), with the history of the
\* identifiers that were answered with a default
NotedLoadClass(identifier, default) ==
    LET o == LoadClass(plugin_cache, registry, identifier, default)
    IN  /\ plugin_cache' = o.cache
        /\ ret' = Outcome("load_class", identifier, default, o, o.kind, o.exc, None)
        /\ resolved' = Resolve(o, identifier)
        /\ fallbacks' = IF IsFallback(o, identifier)
                        THEN fallbacks \cup {identifier}
                        ELSE fallbacks
        /\ UNCHANGED <<registry, treeVars>>

\* XModuleDescriptor.load_from_json(json_data, system, default_class), with
\* category = json_data['location']['category']
LoadFromJson(category, default_class) ==
    LET o == LoadClass(plugin_cache, registry, category, DefaultArg(default_class))
    IN  /\ plugin_cache' = o.cache
        /\ ret' = IF o.kind = "raise"
                  THEN Outcome("load_from_json", category, default_class, o,
                               "raise", o.exc, None)
                  ELSE Outcome("load_from_json", category, default_class, o,
                               "return", None, "from_json")
        /\ resolved' = Resolve(o, category)
        /\ UNCHANGED <<registry, fallbacks, treeVars>>

\* XModuleDescriptor.load_from_xml(xml_data, system, org, course, default_class),
\* with tag = etree.fromstring(xml_data).tag
LoadFromXml(tag, default_class) ==
    LET o == LoadClass(plugin_cache, registry, tag, DefaultArg(default_class))
    IN  /\ plugin_cache' = o.cache
        /\ ret' = IF o.kind = "raise"
                  THEN Outcome("load_from_xml", tag, default_class, o,
                               "raise", o.exc, None)
                  ELSE IF FromXmlRaises(o.cls)
                  THEN Outcome("load_from_xml", tag, default_class, o,
                               "raise", "NotImplementedError", None)
                  ELSE Outcome("load_from_xml", tag, default_class, o,
                               "return", None, "from_xml")
        /\ resolved' = Resolve(o, tag)
        /\ UNCHANGED <<registry, fallbacks, treeVars>>

Defaults == Classes \cup {None}

NoPlugins ==
    /\ registry = <<>>
    /\ plugin_cache = [is_none |-> TRUE, dict |-> <<>>]
    /\ ret = NoCall
    /\ resolved = <<>>
    /\ fallbacks = {}

\* Any registry, fixed for the life of the process; nothing loaded yet
InitPlugin ==
    /\ registry \in Registries
    /\ plugin_cache = [is_none |-> TRUE, dict |-> <<>>]
    /\ ret = NoCall
    /\ resolved = <<>>
    /\ fallbacks = {}
    /\ descriptors = <<>>
    /\ dicts = <<>>
    /\ authored = <<>>
    /\ top_down = TRUE
    /\ call = [op |-> "none"]

NextPlugin ==
    \/ \E i \in Identifiers, d \in Defaults : CallLoadClass(i, d)
    \/ \E i \in Identifiers, d \in Defaults : LoadFromJson(i, d)
    \/ \E i \in Identifiers, d \in Defaults : LoadFromXml(i, d)

----------------------------------------------------------------------------
(* XModuleDescriptor instances *)

NumValues == 2

\* The locations of the model's course, an ancestor before its descendants
Course == <<"course", "chapter", "problem">>
Locations == { Course[i] : i \in DOMAIN Course }

Values == 1..NumValues

\* XModuleDescriptor.inheritable_metadata
inheritable_metadata ==
    <<"graded", "start", "due", "graceperiod", "showanswer", "rerandomize",
      "data_dir">>

\* XModuleDescriptor.equality_attributes
equality_attributes ==
    <<"definition", "metadata", "location", "shared_state_key",
      "inherited_metadata">>

Range(s) == { s[i] : i \in DOMAIN s }

\* The metadata keys the model's courses use: two inheritable, one not.
\* "due" takes every value; the other two take one.
Fields == {"graded", "due", "display_name"}

Metadatas ==
    { m \in UNION { [S -> Values] : S \in SUBSET Fields } :
        \A f \in DOMAIN m : f # "due" => m[f] = 1 }

\* dict[key] = value
DictSet(d, key, value) ==
    [k \in (DOMAIN d) \cup {key} |-> IF k = key THEN value ELSE d[k]]

\* The fields of a Location
LocationFields == <<"org", "course", "category", "name">>

\* Location(location): a location given as the list of its fields or as a dict
\* of them becomes the tuple of the fields, a field the dict lacks being None;
\* a Location is taken as it is
Location(location) ==
    CASE location.form = "list" ->
            [f \in Range(LocationFields) |->
                LET i == CHOOSE j \in DOMAIN LocationFields : LocationFields[j] = f
                IN  location.value[i]]
      [] location.form = "dict" ->
            [f \in Range(LocationFields) |->
                IF f \in DOMAIN location.value THEN location.value[f] ELSE None]
      [] location.form = "Location" -> location.value

\* The forms in which a caller names a content node
LocationForms == {"list", "dict", "Location"}

\* The content node n of the model's course, named in one of the forms
LocationForm(n, form) ==
    CASE form = "list" ->
            [form |-> form, value |-> <<"edx", "demo", n, n>>]
      [] OTHER ->
            [form |-> form,
             value |-> [org |-> "edx", course |-> "demo", category |-> n,
                        name |-> n]]

LocationArg(n) == LocationForm(n, "list")

\* The objects of the model are a record st: st.ds are the descriptor
\* instances by name and st.dicts the metadata dict objects, a descriptor's
\* metadata being the index of its dict.  Two descriptors with one index share
\* one dict.

\* self.metadata, the dict itself
MetadataOf(st, self) == st.dicts[st.ds[self].metadata]

\* XModuleDescriptor.__init__(system, definition, **kwargs) of a new instance
\* self.  args holds the arguments the caller passes: a definition that is not
\* passed (or passed as None) becomes {}; a metadata that is passed is the
\* caller's dict (its index), kept as it is, and one that is not passed is a
\* new empty dict; the location is normalised; shared_state_key defaults to
\* None.  _child_instances is None and _inherited_metadata empty.
Construct(st, self, class_, system, args) ==
    LET passed == "metadata" \in DOMAIN args
        heap == IF passed THEN st.dicts ELSE Append(st.dicts, <<>>)
        location == Location(args.location)
        d == [cls |-> class_,
              system |-> system,
              metadata |-> IF passed THEN args.metadata ELSE Len(heap),
              definition |-> IF "definition" \in DOMAIN args
                             THEN args.definition ELSE <<>>,
              location |-> location,
              name |-> location.name,
              category |-> location.category,
              shared_state_key |-> IF "shared_state_key" \in DOMAIN args
                                   THEN args.shared_state_key ELSE None,
              child_instances |-> [is_none |-> TRUE, list |-> <<>>],
              inherited_metadata |-> {}]
    IN  [st EXCEPT !.ds = DictSet(@, self, d), !.dicts = heap]

\* An inheritance that overwrites what the descriptor already has
ShouldInheritOverwriting(st, self, metadata, attr) == attr \in DOMAIN metadata

\* An inheritance that takes again what the descriptor had inherited before
ShouldInheritRefreshing(st, self, metadata, attr) ==
    /\ attr \in DOMAIN metadata
    /\ \/ attr \notin DOMAIN MetadataOf(st, self)
       \/ attr \in st.ds[self].inherited_metadata

\* The test of inherit_metadata's loop body
ShouldInherit(st, self, metadata, attr) ==
    attr \notin DOMAIN MetadataOf(st, self) /\ attr \in DOMAIN metadata

\* The body of inherit_metadata's loop for one attribute: the attribute joins
\* self._inherited_metadata and its value is written into the dict that
\* self.metadata is.  The argument is only read (the loop writes self.metadata
\* alone, and when the two are one dict it writes nothing), so it is taken as
\* the dict's value.
InheritAttr(st, self, metadata, attr) ==
    IF ShouldInherit(st, self, metadata, attr)
    THEN [st EXCEPT !.ds[self].inherited_metadata = @ \cup {attr},
                    !.dicts[st.ds[self].metadata] =
                        DictSet(@, attr, metadata[attr])]
    ELSE st

RECURSIVE InheritLoop(_, _, _, _)
\* inherit_metadata's loop over inheritable_metadata, from its i-th entry on
InheritLoop(st, self, metadata, i) ==
    IF i > Len(inheritable_metadata)
    THEN st
    ELSE InheritLoop(InheritAttr(st, self, metadata, inheritable_metadata[i]),
                     self, metadata, i + 1)

RECURSIVE InheritLoopBreaks(_, _, _, _)
\* A loop that leaves after the first attribute it copies
InheritLoopBreaks(st, self, metadata, i) ==
    IF i > Len(inheritable_metadata)
    THEN st
    ELSE IF ShouldInherit(st, self, metadata, inheritable_metadata[i])
    THEN InheritAttr(st, self, metadata, inheritable_metadata[i])
    ELSE InheritLoopBreaks(st, self, metadata, i + 1)

\* An inherit_metadata that copies one attribute per call
InheritFirstOnly(st, self, metadata) == InheritLoopBreaks(st, self, metadata, 1)

\* XModuleDescriptor.inherit_metadata(metadata) on self: the objects afterwards
InheritMetadataOf(st, self, metadata) == InheritLoop(st, self, metadata, 1)

\* self.definition.get('children', [])
DefinitionChildren(definition) ==
    IF "children" \in DOMAIN definition THEN definition.children ELSE <<>>

\* system.load_item(location): the store's descriptor instance of the location
LoadItem(location) == location

\* What get_children passes to the child's inherit_metadata: self.metadata
PushedMetadata(st, self) == MetadataOf(st, self)

RECURSIVE LoadLoop(_, _, _)
\* The loop of get_children from the i-th child location on.  st.loads are the
\* locations load_item was called with, st.pushes the descriptors whose
\* inherit_metadata was called.
LoadLoop(st, self, i) ==
    LET children == DefinitionChildren(st.ds[self].definition)
    IN  IF i > Len(children)
        THEN st
        ELSE LET child == LoadItem(children[i])
                 pushed == InheritMetadataOf(st, child, PushedMetadata(st, self))
             IN  LoadLoop([pushed EXCEPT
                              !.ds[self].child_instances.list = Append(@, child),
                              !.loads = Append(@, children[i]),
                              !.pushes = Append(@, child)],
                          self, i + 1)

\* A get_children that never answers from its cache
MustLoadAlways(d) == TRUE

\* Does get_children load, or answer from self._child_instances?
MustLoad(d) == d.child_instances.is_none

\* XModuleDescriptor.get_children() on self: the objects afterwards, with the log
GetChildrenOf(st, self) ==
    IF MustLoad(st.ds[self])
    THEN LoadLoop([ds |-> [st.ds EXCEPT ![self].child_instances =
                                           [is_none |-> FALSE, list |-> <<>>]],
                   dicts |-> st.dicts, loads |-> <<>>, pushes |-> <<>>],
                  self, 1)
    ELSE [ds |-> st.ds, dicts |-> st.dicts, loads |-> <<>>, pushes |-> <<>>]

\* getattr(d, attr, None) for the attributes of equality_attributes; dicts are
\* compared by their content
GetAttr(st, d, attr) ==
    CASE attr = "definition"         -> d.definition
      [] attr = "metadata"           -> st.dicts[d.metadata]
      [] attr = "location"           -> d.location
      [] attr = "shared_state_key"   -> d.shared_state_key
      [] attr = "inherited_metadata" -> d.inherited_metadata

\* An equality that does not compare the classes
EqNoClass(st, self, other) ==
    \A i \in DOMAIN equality_attributes :
        GetAttr(st, self, equality_attributes[i])
            = GetAttr(st, other, equality_attributes[i])

\* XModuleDescriptor.__eq__
Eq(st, self, other) ==
    /\ self.cls = other.cls
    /\ \A i \in DOMAIN equality_attributes :
           GetAttr(st, self, equality_attributes[i])
               = GetAttr(st, other, equality_attributes[i])

\* An export_to_xml that returns instead of raising
ExportToXmlReturns(d) == FALSE

\* XModuleDescriptor.export_to_xml of the base class: always raises
ExportToXmlRaises(d) == TRUE

----------------------------------------------------------------------------
(* Operations on the descriptors *)

\* The objects of the current state
Graph == [ds |-> descriptors, dicts |-> dicts]

NoTreeCall ==
    [op |-> "none", self |-> "none", other |-> "none", metadata |-> <<>>,
     first |-> FALSE, loads |-> <<>>, pushes |-> <<>>, value |-> <<>>,
     had |-> {}, touched |-> {}, repeat |-> FALSE, changed |-> FALSE,
     eq |-> FALSE, exc |-> None]

\* The keys that differ between two states of a dict
Touched(old, new) ==
    { f \in (DOMAIN old) \cup (DOMAIN new) :
        \/ f \notin DOMAIN old
        \/ f \notin DOMAIN new
        \/ old[f] # new[f] }

Parents(ds, n) ==
    { p \in DOMAIN ds : n \in Range(DefinitionChildren(ds[p].definition)) }

\* d.inherit_metadata(metadata), called from outside get_children
InheritMetadata(self, metadata) ==
    LET new == InheritMetadataOf(Graph, self, metadata)
    IN  /\ descriptors' = new.ds
        /\ dicts' = new.dicts
        /\ call' = [NoTreeCall EXCEPT
                       !.op = "inherit_metadata", !.self = self,
                       !.metadata = metadata,
                       !.had = DOMAIN MetadataOf(Graph, self),
                       !.touched = Touched(MetadataOf(Graph, self),
                                           MetadataOf(new, self)),
                       !.repeat = /\ call.op = "inherit_metadata"
                                  /\ call.self = self
                                  /\ call.metadata = metadata,
                       !.changed = new # Graph]
        /\ top_down' = FALSE
        /\ UNCHANGED <<authored, pluginVars>>

\* d.get_children()
GetChildren(self) ==
    LET st == GetChildrenOf(Graph, self)
    IN  /\ descriptors' = st.ds
        /\ dicts' = st.dicts
        /\ call' = [NoTreeCall EXCEPT
                       !.op = "get_children", !.self = self,
                       !.first = descriptors[self].child_instances.is_none,
                       !.loads = st.loads, !.pushes = st.pushes,
                       !.value = st.ds[self].child_instances.list,
                       !.changed = st.ds # descriptors \/ st.dicts # dicts]
        /\ top_down' = IF descriptors[self].child_instances.is_none
                       THEN /\ top_down
                            /\ \A p \in Parents(descriptors, self) :
                                   ~descriptors[p].child_instances.is_none
                       ELSE top_down
        /\ UNCHANGED <<authored, pluginVars>>

\* a == b
Compare(a, b) ==
    /\ call' = [NoTreeCall EXCEPT !.op = "eq", !.self = a, !.other = b,
                                  !.eq = Eq(Graph, descriptors[a], descriptors[b])]
    /\ UNCHANGED <<descriptors, dicts, authored, top_down, pluginVars>>

\* d.export_to_xml(resource_fs) on a descriptor whose class does not override it
ExportToXml(self) ==
    /\ ~OverridesXml(descriptors[self].cls)
    /\ call' = [NoTreeCall EXCEPT
                   !.op = "export_to_xml", !.self = self,
                   !.exc = IF ExportToXmlRaises(descriptors[self])
                           THEN "NotImplementedError" ELSE None]
    /\ UNCHANGED <<descriptors, dicts, authored, top_down, pluginVars>>

\* XModuleDescriptor.from_xml(xml_data, system, org, course), not overridden
FromXml ==
    /\ call' = [NoTreeCall EXCEPT
                   !.op = "from_xml",
                   !.exc = IF FromXmlRaises(BaseClass)
                           THEN "NotImplementedError" ELSE None]
    /\ UNCHANGED <<descriptors, dicts, authored, top_down, pluginVars>>

----------------------------------------------------------------------------
(* The specifications *)

\* Class loading: every registry, any sequence of class-level calls
Spec == InitPlugin /\ [][NextPlugin]_vars

NextFallback ==
    \E i \in Identifiers, d \in Defaults : NotedLoadClass(i, d)

\* Class loading with the history of fallbacks: any sequence of load_class calls
SpecFallback == InitPlugin /\ [][NextFallback]_vars

\* The child lists of the i-th location of a course: later locations, none twice
ChildLists(course, i) ==
    { s \in SeqsUpTo({ course[j] : j \in (i + 1)..Len(course) }, Len(course) - i) :
        \A j, k \in DOMAIN s : j # k => s[j] # s[k] }

\* The shapes of a course: the child list of each of its locations
Shapes(course) ==
    { ch \in [DOMAIN course -> UNION { ChildLists(course, i) : i \in DOMAIN course }] :
        \A i \in DOMAIN course : ch[i] \in ChildLists(course, i) }

\* The shapes of a tree rooted at the first location: every other location is
\* the child of exactly one
TreeShapes(course) ==
    { ch \in Shapes(course) :
        /\ \A i, j \in DOMAIN course : i # j => Range(ch[i]) \cap Range(ch[j]) = {}
        /\ \A j \in 2..Len(course) : \E i \in DOMAIN course : course[j] \in Range(ch[i]) }

DefinitionOf(children) ==
    IF children = <<>> THEN [data |-> "d"]
    ELSE [data |-> "d", children |-> children]

\* Nothing constructed yet; authored is the history kept with the objects
NoStore == [ds |-> <<>>, dicts |-> <<>>, authored |-> <<>>]

\* The history of a new descriptor: the content its metadata dict had when
\* the descriptor was constructed on it
Noted(st, self) ==
    [st EXCEPT !.authored = DictSet(@, self, MetadataOf(st, self))]

\* The ways a caller constructs the descriptor self from the arguments args:
\* without a metadata, with a dict it has just made (any of mds), or with a
\* dict it has handed to a descriptor before
Constructions(st, self, class_, system, args, mds) ==
    LET fresh == Len(st.dicts) + 1
    IN  { Noted(Construct(st, self, class_, system, args), self) }
        \cup { Noted(Construct([st EXCEPT !.dicts = Append(@, m)], self, class_,
                               system, DictSet(args, "metadata", fresh)), self) :
                  m \in mds }
        \cup { Noted(Construct(st, self, class_, system,
                               DictSet(args, "metadata", r)), self) :
                  r \in 1..Len(st.dicts) }

\* The arguments for a content node of a course: a node without children is
\* constructed without a definition
ArgsOf(n, children) ==
    IF children = <<>>
    THEN [location |-> LocationArg(n)]
    ELSE [location |-> LocationArg(n), definition |-> DefinitionOf(children)]

RECURSIVE Build(_, _, _, _)
\* The stores a caller can construct for the first i locations of a course of
\* shape ch, the dict it makes for the j-th location being one of mds[j]
Build(course, ch, mds, i) ==
    IF i = 0
    THEN {NoStore}
    ELSE UNION { Constructions(st, course[i], "VideoDescriptor", "store",
                               ArgsOf(course[i], ch[i]), mds[i]) :
                    st \in Build(course, ch, mds, i - 1) }

\* The state holds the store st
Holds(st) ==
    /\ descriptors = st.ds
    /\ dicts = st.dicts
    /\ authored = st.authored

\* The metadata of the model's courses: any at the first location, inheritable
\* fields alone at the others
CourseMetadatas(course) ==
    [i \in DOMAIN course |->
        IF i = 1 THEN Metadatas
        ELSE { m \in Metadatas : DOMAIN m \subseteq Range(inheritable_metadata) }]

\* A course in one module store: one descriptor instance per location, each
\* as constructed
InitTree ==
    /\ NoPlugins
    /\ \E ch \in Shapes(Course) :
          \E st \in Build(Course, ch, CourseMetadatas(Course), Len(Course)) :
             Holds(st)
    /\ top_down = TRUE
    /\ call = NoTreeCall

NextTree ==
    \E n \in Locations : GetChildren(n)

\* The descriptor tree: every course, get_children in any order
SpecTree == InitTree /\ [][NextTree]_vars

\* A course of four locations, for the pass over a tree with two branches
Syllabus == <<"course", "chapter", "sequential", "problem">>

\* The metadata that hold at most a due date
Dues == { m \in Metadatas : DOMAIN m \subseteq {"due"} }

\* A tree-shaped course of four locations, each descriptor as constructed
InitPass ==
    /\ NoPlugins
    /\ \E ch \in TreeShapes(Syllabus) :
          \E st \in Build(Syllabus, ch, [i \in DOMAIN Syllabus |-> Dues],
                          Len(Syllabus)) :
             Holds(st)
    /\ top_down = TRUE
    /\ call = NoTreeCall

NextPass ==
    \E n \in Range(Syllabus) : GetChildren(n)

\* The inheritance pass: every tree of four locations, get_children in any order
SpecPass == InitPass /\ [][NextPass]_vars

\* The two descriptors that inherit_metadata is called on directly
Pair == <<"problem", "twin">>

\* Two descriptors without children: the problem as constructed with any
\* authored metadata, its twin on the problem's dict or without a metadata
InitInherit ==
    /\ NoPlugins
    /\ \E st \in Build(Pair, [i \in DOMAIN Pair |-> <<>>], <<Metadatas, {}>>,
                        Len(Pair)) :
          Holds(st)
    /\ top_down = TRUE
    /\ call = NoTreeCall

NextInherit ==
    \E n \in Range(Pair), m \in Metadatas : InheritMetadata(n, m)

\* Metadata inheritance: any sequence of inherit_metadata calls on the descriptors
SpecInherit == InitInherit /\ [][NextInherit]_vars

\* The arguments of a descriptor that equality is applied to: a location in
\* any form, a definition or none, a shared_state_key or none
EqArgs(n, form, definition, key) ==
    LET a == [location |-> LocationForm(n, form)]
        b == IF definition = "none" THEN a
             ELSE DictSet(a, "definition",
                          DefinitionOf(IF definition = "leaf" THEN <<>>
                                       ELSE <<"problem">>))
    IN  IF key = None THEN b ELSE DictSet(b, "shared_state_key", key)

\* The metadata of the parent the compared descriptors inherit from
EqParent == [x \in {"due"} |-> 1]

\* The store with the child the definitions of the compared descriptors name
WithChild(st) ==
    Noted(Construct(st, "problem", "VideoDescriptor", "store",
                    [location |-> LocationArg("problem")]), "problem")

\* The store after a call that left the objects r
After(st, r) == [st EXCEPT !.ds = r.ds, !.dicts = r.dicts]

\* The stores of S and those one call later: inherit_metadata(EqParent) or
\* get_children() on one of the descriptors names
Called(S, names) ==
    S \cup { After(st, InheritMetadataOf(st, n, EqParent)) : st \in S, n \in names }
      \cup { After(st, GetChildrenOf(st, n)) : st \in S, n \in names }

RECURSIVE Aged(_, _, _)
\* The stores some time after st: after up to k calls on the descriptors names
Aged(S, names, k) ==
    IF k = 0 THEN S ELSE Aged(Called(S, names), names, k - 1)

\* The stores after the descriptor self was constructed from the arguments,
\* on no metadata, on a new dict or on one a descriptor holds
EqStores(st, self, c, s, args) ==
    Constructions(st, self, c, s, args, {<<>>, EqParent})

\* Two descriptors, the second compared with the first: of any class, the
\* same system or another, the same location or another in any form, on the
\* same metadata dict or another; then any calls that load their children or
\* hand them a parent's metadata (each call changes a descriptor once at most)
InitEq ==
    /\ NoPlugins
    /\ \E c1 \in {BaseClass, "VideoDescriptor"}, form1 \in LocationForms,
          definition1 \in {"none", "leaf", "parent"}, key1 \in {None, "key"} :
          \E lhs \in EqStores(NoStore, "lhs", c1, "store",
                              EqArgs("course", form1, definition1, key1)) :
             \E c2 \in {BaseClass, "VideoDescriptor"},
                s2 \in {"store", "other_store"}, n2 \in {"course", "chapter"},
                form2 \in LocationForms,
                definition2 \in {"none", "leaf", "parent"}, key2 \in {None, "key"} :
                \E rhs \in EqStores(lhs, "rhs", c2, s2,
                                    EqArgs(n2, form2, definition2, key2)) :
                   \E st \in Aged({WithChild(rhs)}, {"lhs", "rhs"}, 4) : Holds(st)
    /\ top_down = TRUE
    /\ call = NoTreeCall

NextEq ==
    \/ \E a, b \in {"lhs", "rhs"} : Compare(a, b)
    \/ \E a \in {"lhs", "rhs"} : ExportToXml(a)
    \/ FromXml

\* Descriptor equality and the abstract XML operations on any two descriptors
SpecEq == InitEq /\ [][NextEq]_vars

\* The locations of a chapter that may hold a problem
Unit == <<"chapter", "problem">>

\* A chapter and a problem, the problem a child of the chapter or not, each as
\* constructed with any authored metadata
InitUnit ==
    /\ NoPlugins
    /\ \E ch \in Shapes(Unit) :
          \E st \in Build(Unit, ch, [i \in DOMAIN Unit |-> Metadatas], Len(Unit)) :
             Holds(st)
    /\ top_down = TRUE
    /\ call = NoTreeCall

\* The metadata outside parents hand to the unit's descriptors
UnitParents == { m \in Metadatas : "graded" \notin DOMAIN m }

NextUnit ==
    \/ \E n \in Range(Unit), m \in UnitParents : InheritMetadata(n, m)
    \/ \E n \in Range(Unit) : GetChildren(n)

\* Inheritance by both routes: inherit_metadata and get_children in any order
SpecUnit == InitUnit /\ [][NextUnit]_vars

----------------------------------------------------------------------------
(* Properties of class loading, under Spec *)

Inheritable == Range(inheritable_metadata)

\* The metadata of descriptor n in the current state
Md(n) == dicts[descriptors[n].metadata]

\* The entry points load_class finds for the identifier of the last call
Matches == IterEntryPoints(registry, Lower(ret.identifier))

\* C1: load_class on an identifier with no matching entry point returns the
\* default when one is given and raises ModuleMissingError otherwise; it never
\* returns None and raises no other error.
C1_MissingPlugin ==
    (ret.op = "load_class" /\ Len(Matches) = 0) =>
        /\ ret.default # None =>
               ret.kind = "return" /\ ret.cls = ret.default /\ ret.exc = None
        /\ ret.default = None =>
               ret.kind = "raise" /\ ret.exc = "ModuleMissingError"
        /\ ~(ret.kind = "return" /\ ret.cls = None)

\* C1 witness: with a class already cached, an unregistered identifier was
\* asked for with a default, and the default came back.
C1_Witness ==
    /\ ret.op = "load_class" /\ Len(Matches) = 0
    /\ ret.default = "HtmlDescriptor" /\ ret.cls = "HtmlDescriptor"
    /\ DOMAIN plugin_cache.dict # {}

\* C2: load_class on an identifier with several matching entry points returns
\* the class of the first one in registry order, that class is the one in the
\* cache, and the ambiguity is logged as a warning whenever the registry is
\* read, never raised.
C2_FirstMatchWins ==
    (ret.op = "load_class" /\ Len(Matches) > 1) =>
        /\ ret.kind = "return" /\ ret.exc = None
        /\ ret.cls = Load(Matches[1])
        /\ Lower(ret.identifier) \in DOMAIN plugin_cache.dict
        /\ plugin_cache.dict[Lower(ret.identifier)] = Load(Matches[1])
        /\ ret.consulted => ret.warned

\* C2 witness: two entry points of different classes match, the registry was
\* read and the warning logged.
C2_Witness ==
    /\ ret.op = "load_class" /\ Len(Matches) = 2
    /\ Load(Matches[1]) # Load(Matches[2])
    /\ ret.warned /\ ret.cls = Load(Matches[1])

\* C3: once load_class has resolved an identifier to a class, every later
\* load_class call with that identifier returns that class from the cache
\* without reading the registry again.
C3_ResolvedOnce ==
    (ret.op = "load_class" /\ ret.known) =>
        /\ ret.kind = "return"
        /\ ret.cls = resolved[ret.identifier]
        /\ ~ret.consulted

\* C8: load_from_json and load_from_xml select the class through load_class
\* with the key (category or tag) and the caller's default_class: a registered
\* key gives its class, an unregistered one the default_class, or
\* ModuleMissingError without one; the selected class's from_json / from_xml is
\* then what builds (from_xml of the base class raising NotImplementedError).
C8_ClassSelection ==
    (ret.op \in {"load_from_json", "load_from_xml"}) =>
        /\ Len(Matches) > 0 => ret.cls = Load(Matches[1])
        /\ (Len(Matches) = 0 /\ ret.default # None) => ret.cls = ret.default
        /\ (Len(Matches) = 0 /\ ret.default = None) =>
               /\ ret.kind = "raise" /\ ret.exc = "ModuleMissingError"
               /\ ret.built_by = None
        /\ (Len(Matches) > 0 \/ ret.default # None) =>
               IF ret.op = "load_from_json"
               THEN ret.kind = "return" /\ ret.built_by = "from_json"
               ELSE IF OverridesXml(ret.cls)
               THEN ret.kind = "return" /\ ret.built_by = "from_xml"
               ELSE ret.kind = "raise" /\ ret.exc = "NotImplementedError"

\* C8 witness: an XML tag with no entry point was loaded with a default_class,
\* whose from_xml built the descriptor.
C8_Witness ==
    /\ ret.op = "load_from_xml" /\ Len(Matches) = 0
    /\ ret.default = "VideoDescriptor" /\ ret.cls = "VideoDescriptor"
    /\ ret.built_by = "from_xml"
    /\ DOMAIN plugin_cache.dict # {}

----------------------------------------------------------------------------
(* Properties of metadata inheritance, under SpecInherit *)

\* C4: inherit_metadata copies a field only if it is inheritable, present in
\* the parent's metadata and not yet a key of the child's; authored fields keep
\* their authored value through any sequence of calls and no field outside
\* inheritable_metadata is ever copied.
C4_AuthoredWins ==
    /\ \A n \in DOMAIN descriptors :
          /\ \A f \in DOMAIN authored[n] :
                /\ f \in DOMAIN Md(n)
                /\ Md(n)[f] = authored[n][f]
          /\ (DOMAIN Md(n)) \ (DOMAIN authored[n]) \subseteq Inheritable
    /\ call.op = "inherit_metadata" =>
          /\ call.touched \subseteq Inheritable \cap (DOMAIN call.metadata)
          /\ call.touched \cap call.had = {}
          /\ \A f \in call.touched :
                Md(call.self)[f] = call.metadata[f]

\* C4 witness: a descriptor that authored due = 1 was handed due = 2, graded and
\* display_name: it took graded alone.
C4_Witness ==
    /\ call.op = "inherit_metadata"
    /\ authored["problem"] = [f \in {"due"} |-> 1]
    /\ DOMAIN call.metadata = {"due", "graded", "display_name"}
    /\ call.metadata["due"] = 2
    /\ call.touched = {"graded"}

\* C5: a second inherit_metadata call with the same parent metadata changes
\* neither the metadata nor the inherited set.
C5_Idempotent ==
    /\ (call.op = "inherit_metadata" /\ call.repeat) => ~call.changed
    /\ \A n \in DOMAIN descriptors : \A m \in Metadatas :
          InheritMetadataOf(InheritMetadataOf(Graph, n, m), n, m)
              = InheritMetadataOf(Graph, n, m)

\* C5 witness: the same two inheritable fields were handed over twice in a row
\* to a descriptor that took both.
C5_Witness ==
    /\ call.op = "inherit_metadata" /\ call.repeat
    /\ {"due", "graded"} \subseteq DOMAIN call.metadata
    /\ descriptors["problem"].inherited_metadata = {"due", "graded"}

----------------------------------------------------------------------------
(* Properties of the descriptor tree, under SpecTree and SpecPass *)

\* The children of a descriptor, as its first get_children must load them
ExpectedChildren(n) == DefinitionChildren(descriptors[n].definition)

\* C6: children are loaded lazily and cached: a descriptor whose get_children
\* has not run holds no children; the first call calls load_item once per
\* entry of definition['children'], in order, and pushes the parent's metadata
\* into each child; a later call returns the cached list and calls neither
\* load_item nor inherit_metadata.
C6_LazyChildren ==
    /\ \A n \in DOMAIN descriptors :
          IF descriptors[n].child_instances.is_none
          THEN descriptors[n].child_instances.list = <<>>
          ELSE descriptors[n].child_instances.list = ExpectedChildren(n)
    /\ (call.op = "get_children" /\ call.first) =>
          /\ call.loads = ExpectedChildren(call.self)
          /\ call.pushes = call.loads
          /\ call.value = call.loads
          /\ \A c \in Range(call.pushes) :
                InheritMetadataOf(Graph, c, Md(call.self)) = Graph
    /\ (call.op = "get_children" /\ ~call.first) =>
          /\ call.loads = <<>> /\ call.pushes = <<>>
          /\ ~call.changed
          /\ call.value = ExpectedChildren(call.self)

\* C6 witness: get_children was called again on a parent of two children.
C6_Witness ==
    /\ call.op = "get_children" /\ ~call.first
    /\ Len(call.value) = 2

IsTree == \A n \in DOMAIN descriptors : Cardinality(Parents(descriptors, n)) <= 1

AllVisited == \A n \in DOMAIN descriptors : ~descriptors[n].child_instances.is_none

RECURSIVE NearestAuthor(_, _)
\* The nearest ancestor-or-self of n that authored field f; "none" without one
NearestAuthor(n, f) ==
    IF f \in DOMAIN authored[n] THEN n
    ELSE IF Parents(descriptors, n) = {} THEN "none"
    ELSE NearestAuthor(CHOOSE p \in Parents(descriptors, n) : TRUE, f)

\* C10: after get_children has run on every node of a tree, parent before
\* child, every descendant has for each inheritable field the value of its
\* nearest ancestor-or-self that authored it, and lacks the field when there
\* is none.
C10_TopDownPass ==
    (IsTree /\ top_down /\ AllVisited) =>
        \A n \in DOMAIN descriptors : \A f \in Inheritable :
            Parents(descriptors, n) # {} =>
                LET a == NearestAuthor(n, f)
                IN  IF a = "none"
                    THEN f \notin DOMAIN Md(n)
                    ELSE /\ f \in DOMAIN Md(n)
                         /\ Md(n)[f] = authored[a][f]

----------------------------------------------------------------------------
(* Properties of equality and the abstract XML operations, under SpecEq *)

\* C7: two descriptors are equal exactly when they have the same class and
\* equal definition, metadata, location, shared_state_key and inherited set;
\* identity, system and the cached children play no part.
C7_Equality ==
    call.op = "eq" =>
        LET a == descriptors[call.self]
            b == descriptors[call.other]
        IN  call.eq <=>
               /\ a.cls = b.cls
               /\ a.definition = b.definition
               /\ dicts[a.metadata] = dicts[b.metadata]
               /\ a.location = b.location
               /\ a.shared_state_key = b.shared_state_key
               /\ a.inherited_metadata = b.inherited_metadata

\* C7 witness: two distinct descriptors of different systems, one with its
\* children loaded and one without, compared equal.
C7_Witness ==
    /\ call.op = "eq" /\ call.eq /\ call.self # call.other
    /\ descriptors[call.self].system # descriptors[call.other].system
    /\ descriptors[call.self].child_instances # descriptors[call.other].child_instances
    /\ descriptors[call.self].inherited_metadata = {"due"}

\* C9: from_xml and export_to_xml of the base class raise NotImplementedError
\* and leave every descriptor as it was.
C9_AbstractXml ==
    [][call'.op \in {"from_xml", "export_to_xml"} =>
          /\ call'.exc = "NotImplementedError"
          /\ descriptors' = descriptors]_vars

\* C9 witness: export_to_xml was called on a descriptor of the base class and
\* raised.
C9_Witness ==
    /\ call.op = "export_to_xml" /\ call.exc = "NotImplementedError"
    /\ descriptors[call.self].cls = BaseClass

----------------------------------------------------------------------------
(* Properties of the inherited set, under SpecUnit *)

\* C11: a descriptor's inherited set is empty right after construction and
\* from then on holds exactly the keys of its metadata whose value was copied
\* from a parent, that is, the keys it did not author: every member is
\* inheritable and a key of the metadata, and no authored field is a member.
C11_InheritedSet ==
    /\ call.op = "none" =>
          \A n \in DOMAIN descriptors : descriptors[n].inherited_metadata = {}
    /\ \A n \in DOMAIN descriptors :
          LET d == descriptors[n]
          IN  /\ d.inherited_metadata = (DOMAIN Md(n)) \ (DOMAIN authored[n])
              /\ d.inherited_metadata \subseteq Inheritable
              /\ d.inherited_metadata \subseteq DOMAIN Md(n)
              /\ d.inherited_metadata \cap (DOMAIN authored[n]) = {}

----------------------------------------------------------------------------
(* Properties of the fallback default, under SpecFallback *)

\* The last call was a load_class answered with the caller's default
FellBack ==
    /\ ret.op = "load_class" /\ ret.kind = "return" /\ ret.consulted
    /\ Len(Matches) = 0

\* What load_class would do now for identifier k and the given default
Later(k, default) == LoadClass(plugin_cache, registry, k, default)

\* C12: a load_class call answered with the caller's default adds nothing to
\* the plugin cache (a cache still None becomes the empty dict, nothing more),
\* so from then on load_class of that identifier without a default raises
\* ModuleMissingError and with another default returns that default.
C12_FallbackNotCached ==
    /\ [][FellBack' => CacheDict(plugin_cache') = CacheDict(plugin_cache)]_vars
    /\ [](\A k \in fallbacks :
            /\ Later(k, None).kind = "raise"
            /\ Later(k, None).exc = "ModuleMissingError"
            /\ \A E \in Classes :
                   Later(k, E).kind = "return" /\ Later(k, E).cls = E)

\* C12 witness: with a class cached, an identifier that had been answered with
\* a default was asked for again without one, and load_class raised.
C12_Witness ==
    /\ ret.op = "load_class" /\ ret.identifier \in fallbacks
    /\ ret.default = None /\ ret.kind = "raise"
    /\ DOMAIN plugin_cache.dict # {}

----------------------------------------------------------------------------
(* Properties of repeated inheritance, under SpecTree *)

\* C13: what a descriptor has inherited stays: no later push of a parent's
\* metadata, whatever it holds, changes the value of a field the descriptor
\* already has or takes it out of the inherited set; a push only adds fields
\* that were absent.
C13_FirstInheritedWins ==
    [][\A n \in DOMAIN descriptors :
          /\ descriptors[n].inherited_metadata
                 \subseteq descriptors'[n].inherited_metadata
          /\ \A f \in DOMAIN Md(n) :
                /\ f \in DOMAIN Md(n)'
                /\ Md(n)'[f] = Md(n)[f]]_vars

\* C13 witness: the problem, a child of both the course and the chapter, holds
\* an inherited due; the parent whose get_children loaded it last has another
\* due, and the problem kept the first.
C13_Witness ==
    /\ call.op = "get_children" /\ call.first
    /\ "problem" \in Range(call.pushes)
    /\ Parents(descriptors, "problem") = {"course", "chapter"}
    /\ AllVisited
    /\ "due" \in descriptors["problem"].inherited_metadata
    /\ "due" \in DOMAIN Md(call.self)
    /\ Md(call.self)["due"] # Md("problem")["due"]

====
